---- MODULE Spec2Model ----
(***************************************************************************)
(* Admin analytics page (src/app/admin/analytics/page.tsx): the page       *)
(* state, the one-shot loadAll effect, the dummy-data toggle, and the      *)
(* registration aggregation computeCounts with the values derived from it  *)
(* at render time.                                                         *)
(*                                                                         *)
(* The site around it: the identity session, the browser location, the     *)
(* community feed with its gated actions, the Book Seat button, the login  *)
(* and signup pages, and the admin page with the collections it writes.    *)
(***************************************************************************)
EXTENDS Integers, Sequences, FiniteSets

\* the analytics page
VARIABLES loading, courses, webinars, registrations, useDummy

\* the three getDocs promises that loadAll hands to Promise.all
VARIABLES fetches

\* the session (auth.currentUser) and the browser location
VARIABLES currentUser, location

\* the community page
VARIABLES posts, showForm, title, excerpt, category

\* the login page: its loading flag, and the sign-in in flight
VARIABLES loginLoading, signIn

\* the signup page: its form state, and the sign-up in flight
VARIABLES name, agree, signupError, signupLoading, signUp

\* the admin page: its lists and forms, its load effect and its save in
\* flight, and the document database behind it
VARIABLES adminCourses, adminWebinars, courseForm, webinarForm, loadingSave,
          load, saving, db

adminVars == <<adminCourses, adminWebinars, courseForm, webinarForm, loadingSave,
               load, saving, db>>
analyticsVars == <<loading, courses, webinars, registrations, useDummy, fetches>>
communityVars == <<posts, showForm, title, excerpt, category>>
loginVars == <<loginLoading>>
signupVars == <<name, agree, signupError, signupLoading>>
pageVars == <<communityVars, loginVars, signupVars>>
siteVars == <<currentUser, location, pageVars, signIn, signUp>>

vars == <<analyticsVars, siteVars, adminVars>>

(***************************************************************************)
(* Bounds of the model.                                                    *)
(***************************************************************************)
\* longest registration snapshot a fetch returns
MaxRegs == 2
\* longest registration snapshot in the specification of the percentages
MaxCountRegs == 3
\* longest registration snapshot with item ids of several types
MaxTypedRegs == 2
\* most posts published into the community feed
MaxPublished == 1
\* most documents written from the admin page
MaxDocs == 1

(***************************************************************************)
(* JavaScript values that occur in a registration document.  One record    *)
(* shape for all of them: t is the kind of value, n the numeric payload    *)
(* (the number itself, or the seconds field of a Firestore timestamp       *)
(* object), s the string payload.                                          *)
(***************************************************************************)
JsUndefined == [t |-> "undefined", n |-> 0, s |-> ""]
JsNull == [t |-> "null", n |-> 0, s |-> ""]
JsNaN == [t |-> "NaN", n |-> 0, s |-> ""]
JsNumber(k) == [t |-> "number", n |-> k, s |-> ""]
JsString(x) == [t |-> "string", n |-> 0, s |-> x]
\* an object with a numeric seconds field (Firestore Timestamp)
JsTimestamp(sec) == [t |-> "object", n |-> sec, s |-> ""]

\* ToBoolean: undefined, null, NaN, 0 and "" are falsy, objects are truthy
Truthy(v) ==
  CASE v.t = "number" -> v.n # 0
    [] v.t = "string" -> v.s # ""
    [] v.t = "object" -> TRUE
    [] OTHER -> FALSE

\* the decimal digits of a natural number
RECURSIVE NumberToString(_)
NumberToString(k) ==
  LET digit(d) == CASE d = 0 -> "0" [] d = 1 -> "1" [] d = 2 -> "2" [] d = 3 -> "3"
                    [] d = 4 -> "4" [] d = 5 -> "5" [] d = 6 -> "6" [] d = 7 -> "7"
                    [] d = 8 -> "8" [] OTHER -> "9"
  IN IF k < 10 THEN digit(k) ELSE NumberToString(k \div 10) \o digit(k % 10)

\* String(x) as applied to reg.itemId
String(v) ==
  CASE v.t = "undefined" -> "undefined"
    [] v.t = "null" -> "null"
    [] v.t = "NaN" -> "NaN"
    [] v.t = "number" -> NumberToString(v.n)
    [] OTHER -> v.s

\* the date strings of the model and the epoch milliseconds they denote
Iso1500 == "1970-01-01T00:00:01.500Z"
NotADate == "not-a-date"

\* Date.parse on the strings of the model: NaN for what is no date
DateParse(str) ==
  IF str = Iso1500 THEN JsNumber(1500) ELSE JsNaN

\* new Date(v).getTime(): a number is the time value itself, a string is
\* parsed, an object is converted to a string that is no date
DateGetTime(v) ==
  CASE v.t = "number" -> JsNumber(v.n)
    [] v.t = "string" -> DateParse(v.s)
    [] OTHER -> JsNaN

(***************************************************************************)
(* Documents.                                                              *)
(***************************************************************************)
Kinds == {"course", "webinar"}
ItemIds == {"A", "B"}

ItemIdValues == {JsString(i) : i \in ItemIds} \cup {JsUndefined}

\* the item id of webinar 1 as a string, as a number, and left out
TypedItemIds == {JsString("1"), JsNumber(1), JsUndefined}

TypedDocs == [type : Kinds, itemId : TypedItemIds, createdAt : {JsTimestamp(2)}]

TypedLists == UNION {[1..n -> TypedDocs] : n \in 0..MaxTypedRegs}

CreatedAtValues ==
  { JsUndefined, JsTimestamp(0), JsTimestamp(2),
    JsString(""), JsString(Iso1500), JsString(NotADate) }

RegistrationDocs ==
  [type : Kinds, itemId : ItemIdValues, createdAt : CreatedAtValues]

RegistrationLists == UNION {[1..n -> RegistrationDocs] : n \in 0..MaxRegs}

\* { id: d.id, ...d.data() } of a course or webinar document
Entity(i) == [id |-> i, title |-> i]

\* catalogs as fetched, ordered by createdAt desc
CatalogLists == { <<Entity("A")>>, <<Entity("B"), Entity("A")>> }

\* the inputs of the specification of the percentages: every kind and
\* itemId, one createdAt, and the catalogs over the ids in either order
CountDocs == [type : Kinds, itemId : ItemIdValues, createdAt : {JsTimestamp(2)}]

CountLists == UNION {[1..n -> CountDocs] : n \in 0..MaxCountRegs}

PresenterCatalogs ==
  { <<>>, <<Entity("A")>>, <<Entity("B"), Entity("A")>>, <<Entity("A"), Entity("B")>> }

(***************************************************************************)
(* computeCounts                                                           *)
(***************************************************************************)
\* Map.set
MapSet(map, k, v) == [x \in (DOMAIN map) \cup {k} |-> IF x = k THEN v ELSE map[x]]

EmptyMap == [x \in {} |-> [count |-> 0, last |-> JsNull]]

\* the ts expression
normalizeTs(createdAt) ==
  IF createdAt.t = "object" /\ createdAt.n # 0
  THEN JsNumber(createdAt.n * 1000)
  ELSE IF Truthy(createdAt) THEN DateGetTime(createdAt) ELSE JsNull

\* the callback with map.get left out: every event starts from a fresh stat
forEachReg_NoGet(map, reg, type) ==
  IF reg.type # type THEN map
  ELSE
    LET id == String(reg.itemId)
        existing == [count |-> 0, last |-> JsNull]
        counted == [existing EXCEPT !.count = @ + 1]
        ts == normalizeTs(reg.createdAt)
        updated ==
          IF Truthy(ts) /\ (~Truthy(counted.last) \/ ts.n > counted.last.n)
          THEN [counted EXCEPT !.last = ts]
          ELSE counted
    IN MapSet(map, id, updated)

\* the callback without the early return on reg.type
forEachReg_NoTypeCheck(map, reg, type) ==
  LET id == String(reg.itemId)
      existing == IF id \in DOMAIN map THEN map[id] ELSE [count |-> 0, last |-> JsNull]
      counted == [existing EXCEPT !.count = @ + 1]
      ts == normalizeTs(reg.createdAt)
      updated ==
        IF Truthy(ts) /\ (~Truthy(counted.last) \/ ts.n > counted.last.n)
        THEN [counted EXCEPT !.last = ts]
        ELSE counted
  IN MapSet(map, id, updated)

\* the callback counting only the events whose timestamp is usable
forEachReg_CountParsedOnly(map, reg, type) ==
  IF reg.type # type THEN map
  ELSE
    LET id == String(reg.itemId)
        existing == IF id \in DOMAIN map THEN map[id] ELSE [count |-> 0, last |-> JsNull]
        ts == normalizeTs(reg.createdAt)
        updated ==
          IF Truthy(ts)
          THEN [count |-> existing.count + 1,
                last |-> IF ~Truthy(existing.last) \/ ts.n > existing.last.n
                         THEN ts ELSE existing.last]
          ELSE existing
    IN MapSet(map, id, updated)

\* the callback testing ts !== null instead of the truthiness of ts
forEachReg_NullCheckOnly(map, reg, type) ==
  IF reg.type # type THEN map
  ELSE
    LET id == String(reg.itemId)
        existing == IF id \in DOMAIN map THEN map[id] ELSE [count |-> 0, last |-> JsNull]
        counted == [existing EXCEPT !.count = @ + 1]
        ts == normalizeTs(reg.createdAt)
        updated ==
          IF ts.t # "null" /\ (~Truthy(counted.last) \/ (ts.t = "number" /\ ts.n > counted.last.n))
          THEN [counted EXCEPT !.last = ts]
          ELSE counted
    IN MapSet(map, id, updated)

\* the callback without the comparison against the stored last
forEachReg_LastWins(map, reg, type) ==
  IF reg.type # type THEN map
  ELSE
    LET id == String(reg.itemId)
        existing == IF id \in DOMAIN map THEN map[id] ELSE [count |-> 0, last |-> JsNull]
        counted == [existing EXCEPT !.count = @ + 1]
        ts == normalizeTs(reg.createdAt)
        updated == IF Truthy(ts) THEN [counted EXCEPT !.last = ts] ELSE counted
    IN MapSet(map, id, updated)

\* the callback of registrations.forEach
forEachReg(map, reg, type) ==
  IF reg.type # type THEN map
  ELSE
    LET id == String(reg.itemId)
        existing == IF id \in DOMAIN map THEN map[id] ELSE [count |-> 0, last |-> JsNull]
        counted == [existing EXCEPT !.count = @ + 1]
        ts == normalizeTs(reg.createdAt)
        updated ==
          IF Truthy(ts) /\ (~Truthy(counted.last) \/ ts.n > counted.last.n)
          THEN [counted EXCEPT !.last = ts]
          ELSE counted
    IN MapSet(map, id, updated)

RECURSIVE forEach(_, _, _)
forEach(map, regs, type) ==
  IF regs = <<>> THEN map
  ELSE forEach(forEachReg(map, Head(regs), type), Tail(regs), type)

\* computeCounts over a given registration list
computeCountsOf(regs, type) == forEach(EmptyMap, regs, type)

\* computeCounts(type), reading the page's registrations
computeCounts(type) == computeCountsOf(registrations, type)

courseCounts == computeCounts("course")
webinarCounts == computeCounts("webinar")

(***************************************************************************)
(* Values derived at render time.                                          *)
(***************************************************************************)
DefaultStat == [count |-> 0, last |-> JsNull]

\* counts.get(id) || { count: 0, last: null }
stat(counts, id) == IF id \in DOMAIN counts THEN counts[id] ELSE DefaultStat

\* (counts.get(id)?.count) || 0
chartCount(counts, id) == IF id \in DOMAIN counts THEN counts[id].count ELSE 0

DummyCourseData ==
  << [name |-> "Trading Fundamentals", count |-> 40],
     [name |-> "Technical Analysis", count |-> 28],
     [name |-> "Risk Management", count |-> 20],
     [name |-> "Market Psychology", count |-> 12] >>

DummyWebinarData ==
  << [name |-> "Jan 15", count |-> 120],
     [name |-> "Jan 22", count |-> 85],
     [name |-> "Feb 05", count |-> 60] >>

\* the course chart reading the webinar counts
courseData_WebinarCounts ==
  IF useDummy THEN DummyCourseData
  ELSE [i \in 1..Len(courses) |->
          [name |-> courses[i].title, count |-> chartCount(webinarCounts, courses[i].id)]]

courseData ==
  IF useDummy THEN DummyCourseData
  ELSE [i \in 1..Len(courses) |->
          [name |-> courses[i].title, count |-> chartCount(courseCounts, courses[i].id)]]

webinarData ==
  IF useDummy THEN DummyWebinarData
  ELSE [i \in 1..Len(webinars) |->
          [name |-> webinars[i].title, count |-> chartCount(webinarCounts, webinars[i].id)]]

\* Math.max over a non-empty set of numbers
MathMax(S) == CHOOSE m \in S : \A x \in S : x <= m

\* Math.max(0, ...): the floor 0 in place of 1
maxOf_FloorZero(counts) == MathMax({0} \cup {counts[k].count : k \in DOMAIN counts})

\* Math.max(1, ...Array.from(counts.values()).map((v) => v.count))
maxOf(counts) == MathMax({1} \cup {counts[k].count : k \in DOMAIN counts})

\* maxCourse computed from the webinar counts
maxCourse_FromWebinars == maxOf(webinarCounts)

maxCourse == maxOf(courseCounts)
maxWebinar == maxOf(webinarCounts)

\* Math.round((count / max) * 100): the nearest integer, halves rounded up;
\* 0 / 0 is NaN
pct(count, max) ==
  IF max = 0 THEN JsNaN ELSE JsNumber((200 * count + max) \div (2 * max))

\* one row of the per-entity list
row(entity, counts, max) ==
  [ key |-> entity.id,
    title |-> entity.title,
    count |-> stat(counts, entity.id).count,
    last |-> stat(counts, entity.id).last,
    pct |-> pct(stat(counts, entity.id).count, max) ]

\* rows sorted by count, highest first, ties in their given order
RECURSIVE byPopularity(_)
byPopularity(rows) ==
  IF rows = <<>> THEN <<>>
  ELSE LET i == CHOOSE j \in 1..Len(rows) :
                  /\ \A k \in 1..Len(rows) : rows[k].count <= rows[j].count
                  /\ \A k \in 1..(j - 1) : rows[k].count < rows[j].count
       IN <<rows[i]>> \o byPopularity(SubSeq(rows, 1, i - 1) \o SubSeq(rows, i + 1, Len(rows)))

\* the course rows sorted by registrations, most popular first
courseRows_ByPopularity ==
  byPopularity([i \in 1..Len(courses) |-> row(courses[i], courseCounts, maxCourse)])

\* courses.map(...) and webinars.map(...) of the per-entity lists
courseRows == [i \in 1..Len(courses) |-> row(courses[i], courseCounts, maxCourse)]
webinarRows == [i \in 1..Len(webinars) |-> row(webinars[i], webinarCounts, maxWebinar)]

(***************************************************************************)
(* URLs.  A string is a sequence of tokens: the reserved characters, their *)
(* percent-escapes, and words.                                             *)
(***************************************************************************)
\* the first position of tok in str, 0 when there is none
RECURSIVE indexOf(_, _)
indexOf(str, tok) ==
  IF str = <<>> THEN 0
  ELSE IF Head(str) = tok THEN 1
  ELSE LET r == indexOf(Tail(str), tok) IN IF r = 0 THEN 0 ELSE r + 1

\* str.split(sep)
RECURSIVE split(_, _)
split(str, sep) ==
  LET i == indexOf(str, sep)
  IN IF i = 0 THEN <<str>>
     ELSE <<SubSeq(str, 1, i - 1)>> \o split(SubSeq(str, i + 1, Len(str)), sep)

escape(tok) ==
  CASE tok = "/" -> "%2F"
    [] tok = "?" -> "%3F"
    [] tok = "=" -> "%3D"
    [] tok = "&" -> "%26"
    [] tok = ":" -> "%3A"
    [] OTHER -> tok

unescape(tok) ==
  CASE tok = "%2F" -> "/"
    [] tok = "%3F" -> "?"
    [] tok = "%3D" -> "="
    [] tok = "%26" -> "&"
    [] tok = "%3A" -> ":"
    [] OTHER -> tok

encodeURIComponent(str) == [i \in 1..Len(str) |-> escape(str[i])]
decodeURIComponent(str) == [i \in 1..Len(str) |-> unescape(str[i])]

\* the path of a URL, and its query string without the "?"
pathname(url) ==
  IF indexOf(url, "?") = 0 THEN url ELSE SubSeq(url, 1, indexOf(url, "?") - 1)
search(url) ==
  IF indexOf(url, "?") = 0 THEN <<>> ELSE SubSeq(url, indexOf(url, "?") + 1, Len(url))

\* the name=value pairs of a query string, both sides decoded
searchParams(url) ==
  LET parts == SelectSeq(split(search(url), "&"), LAMBDA q : q # <<>>)
      pair(q) ==
        LET i == indexOf(q, "=")
        IN IF i = 0 THEN [key |-> decodeURIComponent(q), value |-> <<>>]
           ELSE [key |-> decodeURIComponent(SubSeq(q, 1, i - 1)),
                 value |-> decodeURIComponent(SubSeq(q, i + 1, Len(q)))]
  IN [i \in 1..Len(parts) |-> pair(parts[i])]

\* URLSearchParams.get: the value of the first pair of the name, null
\* (found = FALSE) when there is none
searchParamsGet(url, key) ==
  LET ps == SelectSeq(searchParams(url), LAMBDA q : q.key = <<key>>)
  IN IF ps = <<>> THEN [found |-> FALSE, value |-> <<>>]
     ELSE [found |-> TRUE, value |-> Head(ps).value]

\* a parameter that is null or the empty string is falsy
present(param) == param.found /\ param.value # <<>>

Home == <<"/">>
CommunityUrl == <<"/", "community">>
WebinarsUrl == <<"/", "webinars">>
LoginUrl == <<"/", "login">>
SignupUrl == <<"/", "signup">>

WebinarIds == {"42", "7"}
CourseIds == {"c1"}

\* `/signup?course=${course.id}` of the Enroll link
EnrollUrl(course) == <<"/", "signup", "?", "course", "=", course>>

\* the URLs a visitor opens from a link of the site or the address bar
EntryUrls ==
  {Home, CommunityUrl, WebinarsUrl, LoginUrl, SignupUrl} \cup {EnrollUrl(c) : c \in CourseIds}

(***************************************************************************)
(* The session.                                                            *)
(***************************************************************************)
NoUser == [signedIn |-> FALSE, displayName |-> "", email |-> ""]
User(displayName, email) == [signedIn |-> TRUE, displayName |-> displayName, email |-> email]

\* the accounts a sign-in can resolve to: with and without a display name
Accounts == {User("Asha", "asha@example.com"), User("", "ravi@example.com")}

\* the email typed into the signup form, and the names
SignupEmail == "new@example.com"
Names == {"", "Nina"}

\* the message of the error a rejected sign-in or sign-up carries
IdentityErrors == {"Firebase: Error (auth/invalid-credential)."}

\* useAuth().user
useAuthUser == currentUser

(***************************************************************************)
(* The community page.                                                     *)
(***************************************************************************)
categories == <<"Trading Basics", "Market Psychology", "Q&A", "Success Stories", "Technical Analysis">>

initialPosts ==
  << [title |-> "How to Read Candlestick Charts Like a Pro", excerpt |-> "e1",
      category |-> "Technical Analysis", author |-> "Shobha Pujari",
      views |-> 1240, likes |-> 89, comments |-> 23],
     [title |-> "Overcoming Trading Fear: A Beginner's Guide", excerpt |-> "e2",
      category |-> "Market Psychology", author |-> "Shobha Pujari",
      views |-> 2100, likes |-> 156, comments |-> 67],
     [title |-> "Why Most Beginners Fail in Trading", excerpt |-> "e3",
      category |-> "Trading Basics", author |-> "Shobha Pujari",
      views |-> 3400, likes |-> 234, comments |-> 112] >>

\* what a member types into the form
Titles == {"", "My setup"}
Excerpts == {"", "It works"}

\* a || b on strings
orElse(a, b) == IF a # "" THEN a ELSE b

\* the state of the pages as mounted
CommunityInit ==
  /\ posts = initialPosts
  /\ showForm = FALSE
  /\ title = ""
  /\ excerpt = ""
  /\ category = categories[1]

LoginInit == loginLoading = FALSE

SignupInit ==
  /\ name = ""
  /\ agree = FALSE
  /\ signupError = ""
  /\ signupLoading = FALSE

\* no sign-up in flight; one in flight holds what the handler closed over
NoSignUp == [stage |-> "none", name |-> "", redirectParam |-> [found |-> FALSE, value |-> <<>>],
             course |-> [found |-> FALSE, value |-> <<>>]]

SiteInit ==
  /\ currentUser = NoUser
  /\ location = Home
  /\ CommunityInit /\ LoginInit /\ SignupInit
  /\ signIn = "none"
  /\ signUp = NoSignUp

\* what a member picks in the category select
CategoryChoices == {categories[1], categories[3]}

\* the state of a page after a navigation to url: a page that is entered
\* mounts from its initial state, every other page keeps the state it has
\* (that of a page that is not shown is never read)
after(url, page, now, fresh) ==
  IF pathname(url) = page /\ pathname(location) # page THEN fresh ELSE now

communityAfter(url) ==
  /\ posts' = after(url, CommunityUrl, posts, initialPosts)
  /\ showForm' = after(url, CommunityUrl, showForm, FALSE)
  /\ title' = after(url, CommunityUrl, title, "")
  /\ excerpt' = after(url, CommunityUrl, excerpt, "")
  /\ category' = after(url, CommunityUrl, category, categories[1])

loginAfter(url) == loginLoading' = after(url, LoginUrl, loginLoading, FALSE)

signupAfter(url) ==
  /\ name' = after(url, SignupUrl, name, "")
  /\ agree' = after(url, SignupUrl, agree, FALSE)
  /\ signupError' = after(url, SignupUrl, signupError, "")
  /\ signupLoading' = after(url, SignupUrl, signupLoading, FALSE)

\* router.push(url), and a followed link
push(url) ==
  /\ location' = url
  /\ communityAfter(url) /\ loginAfter(url) /\ signupAfter(url)

\* the visitor follows a link of the site to one of its pages
visit ==
  /\ \E url \in EntryUrls : url # location /\ push(url)
  /\ UNCHANGED <<currentUser, signIn, signUp, analyticsVars, adminVars>>

\* an address outside the site
ForeignSite == <<"https", ":", "/", "/", "evil.example">>

\* links to the identity pages made outside the site: their parameters are
\* whatever the author of the link chose
LinkedUrls ==
  { LoginUrl \o <<"?", "redirect", "=">> \o encodeURIComponent(ForeignSite),
    SignupUrl \o <<"?", "redirect", "=">> \o encodeURIComponent(ForeignSite),
    SignupUrl \o <<"?", "course", "=", "c1", "&", "redirect", "=">>
              \o encodeURIComponent(CommunityUrl) }

\* the visitor opens such a link
openLink ==
  /\ \E url \in LinkedUrls : url # location /\ push(url)
  /\ UNCHANGED <<currentUser, signIn, signUp, analyticsVars, adminVars>>

\* the session ends (sign-out, expiry) outside the pages modelled here
sessionEnds ==
  /\ currentUser.signedIn
  /\ currentUser' = NoUser
  /\ UNCHANGED <<location, pageVars, signIn, signUp, analyticsVars, adminVars>>

\* `/signup?redirect=/community`
SignupRedirectCommunity == <<"/", "signup", "?", "redirect", "=", "/", "community">>

\* requireAuthRedirect that lets everyone through
requireAuthRedirect_Open(proceed) ==
  proceed

\* requireAuthRedirect, and the caller that returns when it is false:
\* without a current user the router is pushed to the signup page and
\* the handler stops, with one the handler proceeds
requireAuthRedirect(proceed) ==
  IF ~currentUser.signedIn
  THEN /\ push(SignupRedirectCommunity)
       /\ UNCHANGED <<currentUser, signIn, signUp, analyticsVars, adminVars>>
  ELSE proceed

\* the "Create New Post" / "Cancel" button
toggleForm ==
  /\ pathname(location) = CommunityUrl
  /\ requireAuthRedirect(
       /\ showForm' = ~showForm
       /\ UNCHANGED <<posts, title, excerpt, category, currentUser, location,
                      loginVars, signupVars, signIn, signUp, analyticsVars, adminVars>>)

\* the inputs of the form, rendered while showForm
setTitle ==
  /\ pathname(location) = CommunityUrl /\ showForm
  /\ \E t \in Titles : t # title /\ title' = t
  /\ UNCHANGED <<posts, showForm, excerpt, category, currentUser, location,
                 loginVars, signupVars, signIn, signUp, analyticsVars, adminVars>>

setExcerpt ==
  /\ pathname(location) = CommunityUrl /\ showForm
  /\ \E x \in Excerpts : x # excerpt /\ excerpt' = x
  /\ UNCHANGED <<posts, showForm, title, category, currentUser, location,
                 loginVars, signupVars, signIn, signUp, analyticsVars, adminVars>>

setCategory ==
  /\ pathname(location) = CommunityUrl /\ showForm
  /\ \E c \in CategoryChoices : c # category /\ category' = c
  /\ UNCHANGED <<posts, showForm, title, excerpt, currentUser, location,
                 loginVars, signupVars, signIn, signUp, analyticsVars, adminVars>>

\* the author of a new post taken from the title field
author_FromTitle(user) ==
  orElse(title, "Member")

\* auth.currentUser?.displayName || auth.currentUser?.email || "Member"
author(user) ==
  orElse(user.displayName, orElse(user.email, "Member"))

\* the post of handleNewPost, without its clock-derived id and date
newPost ==
  [title |-> title, excerpt |-> excerpt, category |-> category,
   author |-> author(currentUser), views |-> 0, likes |-> 0, comments |-> 0]

\* a handleNewPost that leaves the category select as it is
handleNewPost_KeepCategory ==
  /\ pathname(location) = CommunityUrl /\ showForm
  /\ title # "" /\ excerpt # ""
  /\ requireAuthRedirect(
       /\ Len(posts) < Len(initialPosts) + MaxPublished
       /\ posts' = <<newPost>> \o posts
       /\ showForm' = FALSE
       /\ title' = ""
       /\ excerpt' = ""
       /\ UNCHANGED <<category, currentUser, location, loginVars, signupVars,
                      signIn, signUp, analyticsVars, adminVars>>)

\* the form's onSubmit; the browser submits only when the required title
\* and excerpt are filled in
handleNewPost ==
  /\ pathname(location) = CommunityUrl /\ showForm
  /\ title # "" /\ excerpt # ""
  /\ requireAuthRedirect(
       /\ Len(posts) < Len(initialPosts) + MaxPublished
       /\ posts' = <<newPost>> \o posts
       /\ showForm' = FALSE
       /\ title' = ""
       /\ excerpt' = ""
       /\ category' = categories[1]
       /\ UNCHANGED <<currentUser, location, loginVars, signupVars,
                      signIn, signUp, analyticsVars, adminVars>>)

(***************************************************************************)
(* The Book Seat button.                                                   *)
(***************************************************************************)
\* `/webinars/book/${id}`
hrefIfLoggedIn(id) == <<"/", "webinars", "/", "book", "/", id>>

\* `/webinars?book=${id}`
resumeBooking(id) == <<"/", "webinars", "?", "book", "=", id>>

\* `/login?redirect=${encodeURIComponent(`/webinars?book=${id}`)}`
redirectIfNot(id) ==
  <<"/", "login", "?", "redirect", "=">> \o encodeURIComponent(resumeBooking(id))

\* the link the button renders
WebinarBookButton(id) ==
  IF useAuthUser.signedIn THEN hrefIfLoggedIn(id) ELSE redirectIfNot(id)

\* the visitor follows the link of the button of webinar id
bookSeat(id) ==
  /\ push(WebinarBookButton(id))
  /\ UNCHANGED <<currentUser, signIn, signUp, analyticsVars, adminVars>>

BookSeat == \E id \in WebinarIds : bookSeat(id)

(***************************************************************************)
(* The login page.                                                         *)
(***************************************************************************)
\* handleLogin up to its await; the submit button is disabled while loading
handleLogin ==
  /\ pathname(location) = LoginUrl
  /\ ~loginLoading
  /\ signIn = "none"
  /\ loginLoading' = TRUE
  /\ signIn' = "pending"
  /\ UNCHANGED <<currentUser, location, communityVars, signupVars, signUp, analyticsVars, adminVars>>

\* params.get("redirect") || "/" over the search of url
loginRedirectAt(url) ==
  LET redirect == searchParamsGet(url, "redirect")
  IN IF present(redirect) THEN redirect.value ELSE Home

\* the same over window.location.search
loginRedirect == loginRedirectAt(location)

\* signInWithEmailAndPassword fulfilled: the session is established, the
\* router is pushed to the redirect, the finally block runs
signInFulfilled ==
  /\ signIn = "pending"
  /\ signIn' = "none"
  /\ \E account \in Accounts : currentUser' = account
  /\ location' = loginRedirect
  /\ communityAfter(loginRedirect) /\ signupAfter(loginRedirect)
  /\ loginLoading' = FALSE
  /\ UNCHANGED <<signUp, analyticsVars, adminVars>>

\* a handleLogin without its finally block
signInRejects_NoFinally(e) ==
  /\ signIn = "pending"
  /\ signIn' = "none"
  /\ UNCHANGED <<loginLoading, currentUser, location, communityVars, signupVars, signUp,
                 analyticsVars, adminVars>>

\* signInWithEmailAndPassword rejected with the error e: there is no catch
\* block, only the finally block runs
signInRejects(e) ==
  /\ signIn = "pending"
  /\ signIn' = "none"
  /\ loginLoading' = FALSE
  /\ UNCHANGED <<currentUser, location, communityVars, signupVars, signUp, analyticsVars, adminVars>>

signInRejected == \E e \in IdentityErrors : signInRejects(e)

\* the text the login page shows for a failure: it renders no error element
loginErrorShown == ""

(***************************************************************************)
(* The signup page.                                                        *)
(***************************************************************************)
setName ==
  /\ pathname(location) = SignupUrl
  /\ \E n \in Names : n # name /\ name' = n
  /\ UNCHANGED <<agree, signupError, signupLoading, currentUser, location,
                 communityVars, loginVars, signIn, signUp, analyticsVars, adminVars>>

setAgree ==
  /\ pathname(location) = SignupUrl
  /\ agree' = ~agree
  /\ UNCHANGED <<name, signupError, signupLoading, currentUser, location,
                 communityVars, loginVars, signIn, signUp, analyticsVars, adminVars>>

\* handleSignup up to its first await; the button is disabled while loading
\* or without the agreement, and the name is a required input
handleSignup ==
  /\ pathname(location) = SignupUrl
  /\ ~signupLoading /\ agree /\ name # ""
  /\ signUp.stage = "none"
  /\ signupError' = ""
  /\ signupLoading' = TRUE
  /\ signUp' = [stage |-> "createUser", name |-> name,
                redirectParam |-> searchParamsGet(location, "redirect"),
                course |-> searchParamsGet(location, "course")]
  /\ UNCHANGED <<name, agree, currentUser, location, communityVars, loginVars,
                 signIn, analyticsVars, adminVars>>

\* createUserWithEmailAndPassword fulfilled: the new user is signed in and
\* the handler awaits updateProfile
createUserFulfilled ==
  /\ signUp.stage = "createUser"
  /\ currentUser' = User("", SignupEmail)
  /\ signUp' = [signUp EXCEPT !.stage = "updateProfile"]
  /\ UNCHANGED <<location, pageVars, signIn, analyticsVars, adminVars>>

\* catch (err) { setError(err.message) } finally { setLoading(false) }
catch(e) ==
  /\ signupError' = e
  /\ signupLoading' = FALSE
  /\ signUp' = NoSignUp
  /\ UNCHANGED <<name, agree, currentUser, location, communityVars, loginVars,
                 signIn, analyticsVars, adminVars>>

\* createUserWithEmailAndPassword rejected with the error e
createUserRejects(e) == signUp.stage = "createUser" /\ catch(e)

createUserRejected == \E e \in IdentityErrors : createUserRejects(e)

\* updateProfile rejected with the error e
updateProfileRejects(e) == signUp.stage = "updateProfile" /\ catch(e)

updateProfileRejected == \E e \in IdentityErrors : updateProfileRejects(e)

\* `/courses/${course}`
CourseUrl(course) == <<"/", "courses", "/">> \o course

\* a redirect that looks at the course first
signupRedirect_CourseFirst ==
  IF present(signUp.course) THEN CourseUrl(signUp.course.value)
  ELSE IF present(signUp.redirectParam) THEN signUp.redirectParam.value
  ELSE Home

\* the redirect of handleSignup: the redirect param has priority, then the
\* course, then the home page
signupRedirect ==
  IF present(signUp.redirectParam) THEN signUp.redirectParam.value
  ELSE IF present(signUp.course) THEN CourseUrl(signUp.course.value)
  ELSE Home

\* updateProfile fulfilled: the display name is set, the router is pushed
\* to the redirect, the finally block runs
updateProfileFulfilled ==
  /\ signUp.stage = "updateProfile"
  /\ currentUser' = IF currentUser.signedIn /\ currentUser.email = SignupEmail
                    THEN [currentUser EXCEPT !.displayName = signUp.name]
                    ELSE currentUser
  /\ location' = signupRedirect
  /\ communityAfter(signupRedirect) /\ loginAfter(signupRedirect)
  /\ name' = name /\ agree' = agree /\ signupError' = signupError
  /\ signupLoading' = FALSE
  /\ signUp' = NoSignUp
  /\ UNCHANGED <<signIn, analyticsVars, adminVars>>

\* the text the signup page shows for a failure
signupErrorShown == signupError

\* the "Login" button under the form
loginLink ==
  /\ pathname(location) = SignupUrl
  /\ LET course == searchParamsGet(location, "course")
     IN push(IF present(course)
             THEN <<"/", "login", "?", "course", "=">> \o course.value
             ELSE LoginUrl)
  /\ UNCHANGED <<currentUser, signIn, signUp, analyticsVars, adminVars>>

(***************************************************************************)
(* The admin page (src/app/admin/page.tsx) and the database it writes.     *)
(***************************************************************************)
EmptyCourseForm ==
  [title |-> "", description |-> "", duration |-> "", price |-> "", level |-> "",
   modules |-> JsString("")]

EmptyWebinarForm ==
  [title |-> "", date |-> "", time |-> "", duration |-> "", platform |-> "",
   price |-> "", seats |-> "", link |-> ""]

\* what the administrator types into the fields that are varied
CourseInputs(field) ==
  IF field = "modules" THEN {JsString("3"), JsString("many")} ELSE {"Options 101"}
CourseFields == {"title", "description", "modules"}
WebinarFields == {"title"}
WebinarInputs(field) == {"Live Q&A"}

\* Number(str) over the inputs
Number(v) ==
  CASE v.s = "" -> JsNumber(0)
    [] v.s = "3" -> JsNumber(3)
    [] OTHER -> JsNaN

\* the fields of the course document: the form with modules as a number
\* and the timestamp the server assigns
courseDocData(form, now) ==
  [title |-> form.title, description |-> form.description, duration |-> form.duration,
   price |-> form.price, level |-> form.level,
   modules |-> IF Truthy(Number(form.modules)) THEN Number(form.modules) ELSE JsNumber(0),
   createdAt |-> now]

webinarDocData(form, now) ==
  [title |-> form.title, date |-> form.date, time |-> form.time,
   duration |-> form.duration, platform |-> form.platform, price |-> form.price,
   seats |-> form.seats, link |-> form.link, createdAt |-> now]

\* the collections before the page is opened: one course, no webinar; a
\* collection is held in the order of the queries, createdAt descending
SeedDb ==
  [courses |-> << [id |-> 0,
                   data |-> courseDocData([EmptyCourseForm EXCEPT !.title = "Basics",
                                                               !.description = "Start here"], 0)] >>,
   webinars |-> <<>>]

\* the documents written since
written == Len(db.courses) + Len(db.webinars) - Len(SeedDb.courses)

\* the id and the timestamp of the next document
nextId == Len(db.courses) + Len(db.webinars)

NoSave == <<>>

AdminInit ==
  /\ adminCourses = <<>>
  /\ adminWebinars = <<>>
  /\ courseForm = EmptyCourseForm
  /\ webinarForm = EmptyWebinarForm
  /\ loadingSave = FALSE
  /\ load = [pc |-> "courses", served |-> FALSE, docs |-> <<>>]
  /\ saving = NoSave
  /\ db = SeedDb

\* the server answers the getDocs that load() awaits with the collection
\* as it is now
getDocsServed ==
  /\ load.pc \in {"courses", "webinars"}
  /\ ~load.served
  /\ load' = [load EXCEPT !.served = TRUE, !.docs = db[load.pc]]
  /\ UNCHANGED <<adminCourses, adminWebinars, courseForm, webinarForm, loadingSave,
                 saving, db, analyticsVars, siteVars>>

\* load(): the first getDocs is fulfilled, setCourses, the second is issued
loadCourses ==
  /\ load.pc = "courses" /\ load.served
  /\ adminCourses' = load.docs
  /\ load' = [pc |-> "webinars", served |-> FALSE, docs |-> <<>>]
  /\ UNCHANGED <<adminWebinars, courseForm, webinarForm, loadingSave,
                 saving, db, analyticsVars, siteVars>>

\* load(): the second getDocs is fulfilled, setWebinars
loadWebinars ==
  /\ load.pc = "webinars" /\ load.served
  /\ adminWebinars' = load.docs
  /\ load' = [pc |-> "done", served |-> FALSE, docs |-> <<>>]
  /\ UNCHANGED <<adminCourses, courseForm, webinarForm, loadingSave,
                 saving, db, analyticsVars, siteVars>>

\* load(): a getDocs is rejected, the rest of load() does not run
loadRejected ==
  /\ load.pc \in {"courses", "webinars"}
  /\ ~load.served
  /\ load' = [pc |-> "failed", served |-> FALSE, docs |-> <<>>]
  /\ UNCHANGED <<adminCourses, adminWebinars, courseForm, webinarForm, loadingSave,
                 saving, db, analyticsVars, siteVars>>

\* an onChange of the course form
setCourseForm ==
  /\ \E field \in CourseFields : \E value \in CourseInputs(field) :
       /\ courseForm[field] # value
       /\ courseForm' = [courseForm EXCEPT ![field] = value]
  /\ UNCHANGED <<adminCourses, adminWebinars, webinarForm, loadingSave,
                 load, saving, db, analyticsVars, siteVars>>

\* an onChange of the webinar form
setWebinarForm ==
  /\ \E field \in WebinarFields : \E value \in WebinarInputs(field) :
       /\ webinarForm[field] # value
       /\ webinarForm' = [webinarForm EXCEPT ![field] = value]
  /\ UNCHANGED <<adminCourses, adminWebinars, courseForm, loadingSave,
                 load, saving, db, analyticsVars, siteVars>>

\* saveCourse up to its await: addDoc is issued with the form as it is;
\* the button is disabled while loadingSave, title and description are
\* required inputs
saveCourse ==
  /\ ~loadingSave
  /\ courseForm.title # "" /\ courseForm.description # ""
  /\ written < MaxDocs
  /\ loadingSave' = TRUE
  /\ saving' = <<[kind |-> "courses", by |-> currentUser, entry |-> courseForm]>>
  /\ UNCHANGED <<adminCourses, adminWebinars, courseForm, webinarForm,
                 load, db, analyticsVars, siteVars>>

\* saveWebinar up to its await; the title is a required input
saveWebinar ==
  /\ ~loadingSave
  /\ webinarForm.title # ""
  /\ written < MaxDocs
  /\ loadingSave' = TRUE
  /\ saving' = <<[kind |-> "webinars", by |-> currentUser, entry |-> webinarForm]>>
  /\ UNCHANGED <<adminCourses, adminWebinars, courseForm, webinarForm,
                 load, db, analyticsVars, siteVars>>

\* addDoc of saveCourse fulfilled: the document is in the collection, the
\* entity is put at the head of the list, the form is reset
saveCourseFulfilled ==
  /\ saving # NoSave /\ saving[1].kind = "courses"
  /\ db' = [db EXCEPT !.courses =
              <<[id |-> nextId, data |-> courseDocData(saving[1].entry, nextId)]>> \o @]
  /\ adminCourses' = <<[id |-> nextId, data |-> saving[1].entry]>> \o adminCourses
  /\ courseForm' = EmptyCourseForm
  /\ loadingSave' = FALSE
  /\ saving' = NoSave
  /\ UNCHANGED <<adminWebinars, webinarForm, load, analyticsVars, siteVars>>

\* addDoc of saveWebinar fulfilled
saveWebinarFulfilled ==
  /\ saving # NoSave /\ saving[1].kind = "webinars"
  /\ db' = [db EXCEPT !.webinars =
              <<[id |-> nextId, data |-> webinarDocData(saving[1].entry, nextId)]>> \o @]
  /\ adminWebinars' = <<[id |-> nextId, data |-> saving[1].entry]>> \o adminWebinars
  /\ webinarForm' = EmptyWebinarForm
  /\ loadingSave' = FALSE
  /\ saving' = NoSave
  /\ UNCHANGED <<adminCourses, courseForm, load, analyticsVars, siteVars>>

\* getRegistrationsCount over a snapshot of the registrations: the size of
\* the query where type == type and itemId == itemId, an equality of
\* type and value with the id string of the entity
getRegistrationsCount(regs, type, itemId) ==
  Cardinality({i \in 1..Len(regs) :
                 regs[i].type = type /\ regs[i].itemId = JsString(itemId)})

\* a save without its finally block
saveRejected_NoFinally ==
  /\ saving # NoSave
  /\ saving' = NoSave
  /\ UNCHANGED <<adminCourses, adminWebinars, courseForm, webinarForm, loadingSave,
                 load, db, analyticsVars, siteVars>>

\* addDoc rejected: only the finally block runs
saveRejected ==
  /\ saving # NoSave
  /\ loadingSave' = FALSE
  /\ saving' = NoSave
  /\ UNCHANGED <<adminCourses, adminWebinars, courseForm, webinarForm,
                 load, db, analyticsVars, siteVars>>

(***************************************************************************)
(* The page.                                                               *)
(***************************************************************************)
\* the collections the three getDocs read, in the order of Promise.all
FetchKeys == {"courses", "webinars", "registrations"}

\* a getDocs promise: pending, fulfilled with a snapshot, or rejected
Pending == [state |-> "pending", docs |-> <<>>]
Fulfilled(docs) == [state |-> "fulfilled", docs |-> docs]
Rejected == [state |-> "rejected", docs |-> <<>>]

Init ==
  /\ loading = TRUE
  /\ courses = <<>>
  /\ webinars = <<>>
  /\ registrations = <<>>
  /\ useDummy = FALSE
  /\ fetches = [k \in FetchKeys |-> Pending]
  /\ SiteInit
  /\ AdminInit

\* loadAll when Promise.all is fulfilled, the snapshots drawn from the
\* given catalogs and registration lists
loadAllResolves(catalogs, regLists) ==
  /\ loading
  /\ \E c \in catalogs, w \in catalogs, r \in regLists :
       /\ courses' = c
       /\ webinars' = w
       /\ registrations' = r
       /\ fetches' = [courses |-> Fulfilled(c), webinars |-> Fulfilled(w),
                      registrations |-> Fulfilled(r)]
  /\ loading' = FALSE
  /\ UNCHANGED <<useDummy, siteVars, adminVars>>

\* loadAll: the three getDocs resolved, Promise.all fulfilled
loadAllFulfilled == loadAllResolves(CatalogLists, RegistrationLists)

\* the same over the inputs of the specification of the percentages
loadAllFulfilledCounts == loadAllResolves(PresenterCatalogs, CountLists)

\* the same over registrations whose item ids are of several types
loadAllFulfilledTyped ==
  loadAllResolves({<<Entity("1")>>, <<Entity("A"), Entity("1")>>}, TypedLists)

\* loadAll: a getDocs rejected, only the finally block runs
loadAllRejected ==
  /\ loading
  /\ loading' = FALSE
  /\ \E k \in FetchKeys : fetches' = [fetches EXCEPT ![k] = Rejected]
  /\ UNCHANGED <<courses, webinars, registrations, useDummy, siteVars, adminVars>>

\* the "Use dummy data" checkbox, rendered once loading is false
setUseDummy ==
  /\ ~loading
  /\ useDummy' = ~useDummy
  /\ UNCHANGED <<loading, courses, webinars, registrations, fetches, siteVars, adminVars>>

\* the snapshots a single getDocs can return
FetchDocs(k) ==
  IF k = "registrations" THEN {<<>>} \cup {<<d>> : d \in CountDocs} ELSE CatalogLists

\* one getDocs is fulfilled with a snapshot
getDocsFulfilled ==
  /\ \E k \in FetchKeys :
       /\ fetches[k].state = "pending"
       /\ \E docs \in FetchDocs(k) : fetches' = [fetches EXCEPT ![k] = Fulfilled(docs)]
  /\ UNCHANGED <<loading, courses, webinars, registrations, useDummy, siteVars, adminVars>>

\* one getDocs is rejected
getDocsRejected ==
  /\ \E k \in FetchKeys :
       /\ fetches[k].state = "pending"
       /\ fetches' = [fetches EXCEPT ![k] = Rejected]
  /\ UNCHANGED <<loading, courses, webinars, registrations, useDummy, siteVars, adminVars>>

\* Promise.race in place of Promise.all: settled with the first promise
PromiseAll_Race(promises) ==
  IF \E k \in DOMAIN promises : promises[k].state = "rejected" THEN "rejected"
  ELSE IF \E k \in DOMAIN promises : promises[k].state = "fulfilled" THEN "fulfilled"
  ELSE "pending"

\* Promise.all: rejected with the first rejection, fulfilled when every
\* promise is
PromiseAll(promises) ==
  IF \E k \in DOMAIN promises : promises[k].state = "rejected" THEN "rejected"
  ELSE IF \A k \in DOMAIN promises : promises[k].state = "fulfilled" THEN "fulfilled"
  ELSE "pending"

\* loadAll after its await, Promise.all fulfilled: the three lists are
\* set from the snapshots, then the finally block
loadAllContinues ==
  /\ loading
  /\ PromiseAll(fetches) = "fulfilled"
  /\ courses' = fetches.courses.docs
  /\ webinars' = fetches.webinars.docs
  /\ registrations' = fetches.registrations.docs
  /\ loading' = FALSE
  /\ UNCHANGED <<useDummy, fetches, siteVars, adminVars>>

\* a loadAll that sets each list whose snapshot has arrived before it
\* leaves
loadAllThrows_Partial ==
  /\ loading
  /\ PromiseAll(fetches) = "rejected"
  /\ courses' = fetches.courses.docs
  /\ webinars' = fetches.webinars.docs
  /\ registrations' = fetches.registrations.docs
  /\ loading' = FALSE
  /\ UNCHANGED <<useDummy, fetches, siteVars, adminVars>>

\* loadAll after its await, Promise.all rejected: the await throws, only
\* the finally block runs
loadAllThrows ==
  /\ loading
  /\ PromiseAll(fetches) = "rejected"
  /\ loading' = FALSE
  /\ UNCHANGED <<courses, webinars, registrations, useDummy, fetches, siteVars, adminVars>>

Next == loadAllFulfilled \/ loadAllRejected \/ setUseDummy

Spec == Init /\ [][Next]_vars

\* the analytics page over the inputs chosen for the percentages
NextPresenter == loadAllFulfilledCounts \/ loadAllRejected \/ setUseDummy

SpecPresenter == Init /\ [][NextPresenter]_vars

\* the analytics page over registrations whose item ids are of several types
NextTyped == loadAllFulfilledTyped \/ loadAllRejected \/ setUseDummy

SpecTyped == Init /\ [][NextTyped]_vars

\* the analytics page with its three fetches followed one by one
NextLoad ==
  \/ getDocsFulfilled \/ getDocsRejected
  \/ loadAllContinues \/ loadAllThrows
  \/ setUseDummy

SpecLoad == Init /\ [][NextLoad]_vars

\* the continuation of loadAll runs once Promise.all has settled
SpecLoadFair == SpecLoad /\ WF_vars(loadAllContinues) /\ WF_vars(loadAllThrows)

\* the gated actions, with the login page that resumes them
NextGate ==
  \/ visit \/ sessionEnds
  \/ toggleForm \/ setTitle \/ setExcerpt \/ setCategory \/ handleNewPost
  \/ BookSeat
  \/ handleLogin \/ signInFulfilled \/ signInRejected

SpecGate == Init /\ [][NextGate]_vars

\* the identity pages, with the links that lead to them
NextIdentity ==
  \/ visit \/ openLink \/ toggleForm \/ BookSeat
  \/ handleLogin \/ signInFulfilled \/ signInRejected
  \/ setName \/ setAgree \/ handleSignup \/ loginLink
  \/ createUserFulfilled \/ createUserRejected
  \/ updateProfileFulfilled \/ updateProfileRejected

SpecIdentity == Init /\ [][NextIdentity]_vars

\* the admin page from its mount, opened by a visitor
NextAdmin ==
  \/ getDocsServed \/ loadCourses \/ loadWebinars \/ loadRejected
  \/ setCourseForm \/ setWebinarForm
  \/ saveCourse \/ saveWebinar
  \/ saveCourseFulfilled \/ saveWebinarFulfilled \/ saveRejected

SpecAdmin == Init /\ [][NextAdmin]_vars

TypeOK ==
  /\ loading \in BOOLEAN
  /\ useDummy \in BOOLEAN
  /\ Len(registrations) <= MaxRegs

(***************************************************************************)
(* Vocabulary of the properties.                                           *)
(***************************************************************************)
\* positions of the events of a kind that name the entity id
Matching(regs, type, id) ==
  {i \in 1..Len(regs) : regs[i].type = type /\ regs[i].itemId = JsString(id)}

\* the epoch milliseconds a createdAt denotes: none when it is absent or
\* does not parse
ParseableMillis(createdAt) ==
  CASE createdAt.t = "object" -> {createdAt.n * 1000}
    [] createdAt.t = "number" -> {createdAt.n}
    [] createdAt.t = "string" ->
         IF DateParse(createdAt.s).t = "number" THEN {DateParse(createdAt.s).n} ELSE {}
    [] OTHER -> {}

SetMax(S) == CHOOSE m \in S : \A x \in S : x <= m

RECURSIVE SumCounts(_)
SumCounts(map) ==
  IF DOMAIN map = {} THEN 0
  ELSE LET k == CHOOSE x \in DOMAIN map : TRUE
       IN map[k].count + SumCounts([x \in (DOMAIN map) \ {k} |-> map[x]])

\* a last timestamp is null or a number; null is below every number
LastLeq(a, b) == a.t = "null" \/ (a.t = "number" /\ b.t = "number" /\ a.n <= b.n)

\* a result of computeCounts: counts are positive, last is null or a number
WellFormedCounts(map) ==
  \A k \in DOMAIN map :
    /\ map[k].count \in Nat \ {0}
    /\ map[k].last.t \in {"null", "number"}

\* the snapshot before its last event, and that event
Before == SubSeq(registrations, 1, Len(registrations) - 1)
LastReg == registrations[Len(registrations)]

(***************************************************************************)
(* Properties of computeCounts.                                            *)
(***************************************************************************)
\* C1: for each kind and entity id, the count computeCounts gives the id is
\* the number of events of that kind whose itemId is that id.
C1_CountIsNumberOfMatchingEvents ==
  \A type \in Kinds, id \in ItemIds :
    stat(computeCounts(type), id).count = Cardinality(Matching(registrations, type, id))

C1_Witness ==
  /\ ~loading
  /\ Cardinality(Matching(registrations, "course", "A")) = 2
  /\ courseCounts["A"].count = 2
  /\ "B" \notin DOMAIN courseCounts

\* C2: for each kind and entity id, last is the maximum epoch-millisecond
\* value over the matching events whose createdAt is present and parseable,
\* and null when there is none.
C2_LastIsMaxParseable ==
  \A type \in Kinds, id \in ItemIds :
    LET ms == UNION {ParseableMillis(registrations[i].createdAt) :
                       i \in Matching(registrations, type, id)}
    IN stat(computeCounts(type), id).last =
         IF ms = {} THEN JsNull ELSE JsNumber(SetMax(ms))

\* C3: an event without itemId is ignored: the result is the one computed
\* from the snapshot without such events.
C3_MissingItemIdIgnored ==
  \A type \in Kinds :
    computeCounts(type) =
      computeCountsOf(SelectSeq(registrations, LAMBDA r : r.itemId # JsUndefined), type)

\* C4: the counts of a kind add up to the number of events of that kind
\* that have an itemId.
C4_SumOfCounts ==
  \A type \in Kinds :
    SumCounts(computeCounts(type)) =
      Cardinality({i \in 1..Len(registrations) :
                     registrations[i].type = type /\ registrations[i].itemId # JsUndefined})

\* C5: events of the other kind do not affect the result: computeCounts(kind)
\* is the result computed from the events of that kind alone.
C5_OtherKindIgnored ==
  \A type \in Kinds :
    computeCounts(type) =
      computeCountsOf(SelectSeq(registrations, LAMBDA r : r.type = type), type)

C5_Witness ==
  /\ ~loading
  /\ Matching(registrations, "webinar", "A") # {}
  /\ Cardinality(Matching(registrations, "course", "A")) = 1
  /\ courseCounts["A"].count = 1
  /\ webinarCounts["A"].count = Cardinality(Matching(registrations, "webinar", "A"))

\* C6: processing an event of the kind raises the count of its key by
\* exactly 1, whatever its createdAt is.
C6_CountIncrementsByOne ==
  registrations # <<>> =>
    LET key == String(LastReg.itemId)
        type == LastReg.type
    IN stat(computeCounts(type), key).count = stat(computeCountsOf(Before, type), key).count + 1

C6_Witness ==
  /\ Len(registrations) >= 2
  /\ ParseableMillis(LastReg.createdAt) = {}
  /\ LastReg.itemId = JsString("A")
  /\ stat(computeCountsOf(Before, LastReg.type), "A").count = 1
  /\ stat(computeCounts(LastReg.type), "A").count = 2

\* C7: an event of the kind whose createdAt is absent or does not parse
\* leaves the last timestamp of its key as it was, and the result is still
\* a well-formed mapping (nothing is raised, no NaN is stored).
C7_MalformedLeavesLast ==
  /\ \A type \in Kinds : WellFormedCounts(computeCounts(type))
  /\ (registrations # <<>> /\ ParseableMillis(LastReg.createdAt) = {}) =>
       LET key == String(LastReg.itemId)
           type == LastReg.type
       IN stat(computeCounts(type), key).last = stat(computeCountsOf(Before, type), key).last

C7_Witness ==
  /\ Len(registrations) >= 2
  /\ LastReg.createdAt = JsString(NotADate)
  /\ LastReg.itemId = JsString("A")
  /\ stat(computeCountsOf(Before, LastReg.type), "A").last = JsNumber(2000)
  /\ stat(computeCounts(LastReg.type), "A").last = JsNumber(2000)

\* C8: the keys of computeCounts(kind) are exactly the entity ids that some
\* event of that kind names.
C8_KeysAreReferencedIds ==
  \A type \in Kinds :
    DOMAIN computeCounts(type) = {id \in ItemIds : Matching(registrations, type, id) # {}}

\* a catalog entity no event of its kind names
Unreferenced(type, entity) == Matching(registrations, type, entity.id) = {}

\* C9 as stated: an unreferenced catalog entity is shown with count 0 and
\* no last timestamp in the per-entity list and in the chart data.
C9_UnreferencedShowsZero ==
  /\ \A i \in 1..Len(courses) :
       Unreferenced("course", courses[i]) =>
         /\ stat(courseCounts, courses[i].id) = DefaultStat
         /\ i \in DOMAIN courseData /\ courseData[i].count = 0
  /\ \A i \in 1..Len(webinars) :
       Unreferenced("webinar", webinars[i]) =>
         /\ stat(webinarCounts, webinars[i].id) = DefaultStat
         /\ i \in DOMAIN webinarData /\ webinarData[i].count = 0

\* C9 amended: an unreferenced catalog entity is shown with count 0 and no
\* last timestamp in the per-entity list, and with count 0 in the chart data
\* whenever the dummy-data toggle is off.
C9_UnreferencedShowsZeroUnlessDummy ==
  /\ \A i \in 1..Len(courses) :
       Unreferenced("course", courses[i]) =>
         /\ stat(courseCounts, courses[i].id) = DefaultStat
         /\ ~useDummy => (i \in DOMAIN courseData /\ courseData[i].count = 0)
  /\ \A i \in 1..Len(webinars) :
       Unreferenced("webinar", webinars[i]) =>
         /\ stat(webinarCounts, webinars[i].id) = DefaultStat
         /\ ~useDummy => (i \in DOMAIN webinarData /\ webinarData[i].count = 0)

C9_Witness ==
  /\ ~loading /\ ~useDummy
  /\ Len(courses) = 2
  /\ Unreferenced("course", courses[1])
  /\ ~Unreferenced("webinar", courses[1])
  /\ ~Unreferenced("course", courses[2])
  /\ courseData[1].count = 0
  /\ courseData[2].count > 0

\* C10: appending an event of the kind to a snapshot raises the count of its
\* key, never lowers the last timestamp of its key (null being lowest), and
\* leaves the stats of every other key as they were.
C10_Monotone ==
  registrations # <<>> =>
    LET key == String(LastReg.itemId)
        type == LastReg.type
        old == computeCountsOf(Before, type)
        new == computeCounts(type)
    IN /\ stat(new, key).count > stat(old, key).count
       /\ LastLeq(stat(old, key).last, stat(new, key).last)
       /\ DOMAIN new = (DOMAIN old) \cup {key}
       /\ \A k \in (DOMAIN new) \ {key} : new[k] = old[k]

C10_Witness ==
  /\ Len(registrations) = 2
  /\ LastReg.type = "course"
  /\ LastReg.itemId = JsString("A")
  /\ LastReg.createdAt = JsString(Iso1500)
  /\ computeCountsOf(Before, "course") = [k \in {"B"} |-> [count |-> 1, last |-> JsNumber(2000)]]
  /\ courseCounts["A"] = [count |-> 1, last |-> JsNumber(1500)]
  /\ courseCounts["B"] = [count |-> 1, last |-> JsNumber(2000)]

(***************************************************************************)
(* Properties of the percentages and of the order of the rows.             *)
(***************************************************************************)
\* the number of events of a kind that name the entity id
Registered(type, id) == Cardinality(Matching(registrations, type, id))

\* the highest number of registrations of an entity of the kind, at least 1
MaxRegistered(type) == MathMax({1} \cup {Registered(type, id) : id \in ItemIds})

\* round(100 * count / max), halves rounded up
RoundedPercent(count, max) == (200 * count + max) \div (2 * max)

\* C12: the percentage shown for a catalog entity is
\* round(100 * count / maxCount), maxCount being the highest count of an
\* entity of the kind and at least 1.
C12_PercentageOfMax ==
  /\ \A i \in 1..Len(courses) :
       courseRows[i].pct =
         JsNumber(RoundedPercent(Registered("course", courses[i].id), MaxRegistered("course")))
  /\ \A i \in 1..Len(webinars) :
       webinarRows[i].pct =
         JsNumber(RoundedPercent(Registered("webinar", webinars[i].id), MaxRegistered("webinar")))

\* C13: every percentage shown is a number between 0 and 100.
C13_PercentageInRange ==
  \A r \in {courseRows[i] : i \in 1..Len(courses)} \cup {webinarRows[i] : i \in 1..Len(webinars)} :
    r.pct.t = "number" /\ r.pct.n \in 0..100

C13_Witness ==
  /\ ~loading
  /\ courses = <<Entity("A")>>
  /\ Registered("course", "B") = 2
  /\ Registered("course", "A") = 1
  /\ maxCourse = 2
  /\ courseRows[1].pct = JsNumber(50)

\* C14: with no registrations maxCount is 1 and every percentage is 0,
\* for every catalog.
C14_EmptyLogGivesZero ==
  registrations = <<>> =>
    /\ maxCourse = 1
    /\ maxWebinar = 1
    /\ \A i \in 1..Len(courses) : courseRows[i].pct = JsNumber(0)
    /\ \A i \in 1..Len(webinars) : webinarRows[i].pct = JsNumber(0)

C14_Witness ==
  /\ ~loading
  /\ registrations = <<>>
  /\ courses = <<>>
  /\ Len(webinars) = 2
  /\ webinarRows[1].pct = JsNumber(0)
  /\ webinarRows[2].pct = JsNumber(0)

\* the rows and the chart entries follow the catalog, one per entity
RowsFollow(rows, catalog) ==
  /\ Len(rows) = Len(catalog)
  /\ \A i \in 1..Len(catalog) : rows[i].key = catalog[i].id
ChartFollows(data, catalog) ==
  /\ Len(data) = Len(catalog)
  /\ \A i \in 1..Len(catalog) : data[i].name = catalog[i].title

\* C15 as stated: the per-entity rows and the chart data are in the order of
\* the fetched catalog, one entry per catalog entity.
C15_CatalogOrder ==
  /\ RowsFollow(courseRows, courses) /\ RowsFollow(webinarRows, webinars)
  /\ ChartFollows(courseData, courses) /\ ChartFollows(webinarData, webinars)

\* C15 amended: the per-entity rows are in the order of the fetched catalog,
\* one per catalog entity, and so is the chart data whenever the dummy-data
\* toggle is off.
C15_CatalogOrderUnlessDummy ==
  /\ RowsFollow(courseRows, courses) /\ RowsFollow(webinarRows, webinars)
  /\ ~useDummy => (ChartFollows(courseData, courses) /\ ChartFollows(webinarData, webinars))

C15_Witness ==
  /\ ~loading /\ ~useDummy
  /\ courses = <<Entity("B"), Entity("A")>>
  /\ courseRows[1].key = "B" /\ courseRows[1].count = 0
  /\ courseRows[2].key = "A" /\ courseRows[2].count = 3
  /\ courseData[1] = [name |-> "B", count |-> 0]
  /\ courseData[2] = [name |-> "A", count |-> 3]

(***************************************************************************)
(* Vocabulary of the gated actions.                                        *)
(***************************************************************************)
\* the pages on which an identity is established
IdentityPages == {LoginUrl, SignupUrl}

\* the next location is an identity page whose redirect parameter is path
SentToIdentityPage(path) ==
  /\ pathname(location') \in IdentityPages
  /\ searchParamsGet(location', "redirect") = [found |-> TRUE, value |-> path]

\* the gated action was not performed
Deferred == posts' = posts /\ showForm' = showForm

\* the booking page of webinar id
BookingPage(id) == <<"/", "webinars", "/", "book", "/", id>>

\* the name a session goes by: its display name, else its email
SessionName == IF currentUser.displayName # "" THEN currentUser.displayName ELSE currentUser.email

\* C16: without a session a gated action (the form toggle, the submission
\* of a post, Book Seat) is not performed: feed and form flag keep their
\* values, and the visitor is sent to an identity page whose redirect
\* parameter is the path to resume
C16_NoSessionDefers ==
  [][~currentUser.signedIn =>
       /\ (toggleForm \/ handleNewPost) => (Deferred /\ SentToIdentityPage(pathname(location)))
       /\ \A id \in WebinarIds :
            bookSeat(id) => (Deferred /\ SentToIdentityPage(<<"/", "webinars", "?", "book", "=", id>>))]_vars

\* a submission made after the session ended: the visitor is on the signup
\* page, the form still open and the feed still holding a published post
C16_Witness ==
  /\ ~currentUser.signedIn
  /\ location = <<"/", "signup", "?", "redirect", "=", "/", "community">>
  /\ showForm /\ title # ""
  /\ Len(posts) > Len(initialPosts)

\* C17: with a session a gated action proceeds at once and without a
\* redirect: a submission adds exactly one post, whose author is the
\* session's display name, else its email, and Book Seat leads to the
\* booking page of the id
C17_SessionProceeds ==
  [][currentUser.signedIn =>
       /\ toggleForm => (showForm' = ~showForm /\ location' = location)
       /\ handleNewPost =>
            /\ Len(posts') = Len(posts) + 1
            /\ Tail(posts') = posts
            /\ Head(posts').author = SessionName
            /\ location' = location
       /\ \A id \in WebinarIds : bookSeat(id) => location' = BookingPage(id)]_vars

\* a post published by a session without a display name
C17_Witness ==
  /\ currentUser.signedIn
  /\ pathname(location) = CommunityUrl
  /\ Len(posts) > Len(initialPosts)
  /\ Head(posts).author = "ravi@example.com"
  /\ ~showForm

\* C18: Book Seat without a session gives a redirect target whose
\* continuation path references the id, and the sign-in that follows
\* lands on the booking page of the id, not on "/"
C18_ResumesBooking ==
  [][\A id \in WebinarIds :
       /\ (~currentUser.signedIn /\ bookSeat(id)) =>
            indexOf(searchParamsGet(location', "redirect").value, id) # 0
       /\ (signInFulfilled /\ location = redirectIfNot(id)) =>
            (location' = BookingPage(id) /\ location' # Home)]_vars

\* C19: a rejected sign-in or sign-up is shown to the user as a message
\* with the text of the identity error, on the login page as on the
\* signup page
C19_FailureIsShown ==
  [][\A e \in IdentityErrors :
       /\ signInRejects(e) => loginErrorShown = e
       /\ (createUserRejects(e) \/ updateProfileRejects(e)) => signupErrorShown' = e]_vars

(***************************************************************************)
(* Vocabulary of the catalog writes.                                       *)
(***************************************************************************)
\* the sessions of the administrators
Administrators == {User("Asha", "asha@example.com")}

\* a course or webinar document is written in this step
DocumentWritten ==
  Len(db'.courses) + Len(db'.webinars) > Len(db.courses) + Len(db.webinars)

\* C20: a catalog entity is created only by an administrator: no course or
\* webinar document is written for a request made without an
\* administrator session
C20_AdministratorOnly ==
  [][DocumentWritten => (saving # NoSave /\ saving[1].by \in Administrators)]_vars

(***************************************************************************)
(* Vocabulary of the load.                                                 *)
(***************************************************************************)
\* every fetch of the load has delivered its snapshot
LoadSucceeded == \A k \in FetchKeys : fetches[k].state = "fulfilled"

\* a fetch of the load has failed
LoadFailed == \E k \in FetchKeys : fetches[k].state = "rejected"

\* no list has been set
NothingLoaded == courses = <<>> /\ webinars = <<>> /\ registrations = <<>>

\* the stats view is rendered
StatsRendered == ~loading

\* C21: the stats view is never rendered from a partial snapshot: when it
\* is rendered after a successful load, the three lists are the snapshots
\* of that load's three fetches, whatever order they resolved in, and
\* until the load is complete no list is set
C21_NoPartialSnapshot ==
  /\ (StatsRendered /\ LoadSucceeded) =>
       /\ courses = fetches.courses.docs
       /\ webinars = fetches.webinars.docs
       /\ registrations = fetches.registrations.docs
  /\ ~LoadSucceeded => NothingLoaded

\* the stats view over a load whose registrations arrived with both
\* catalogs
C21_Witness ==
  /\ StatsRendered /\ LoadSucceeded
  /\ Len(courses) = 2 /\ Len(webinars) = 1 /\ Len(registrations) = 1

\* C29: a failed fetch makes the load all-or-nothing: the throw leaves the
\* three lists as they were, a failed load leaves them empty whatever else
\* arrives, and the page leaves the loading state
C29_AllOrNothing ==
  /\ [][loadAllThrows => UNCHANGED <<courses, webinars, registrations>>]_vars
  /\ [](LoadFailed => NothingLoaded)
  /\ (LoadFailed ~> ~loading)

\* the page has left the loading state after the registrations fetch
\* failed, with both catalogs delivered
C29_Witness ==
  /\ ~loading
  /\ fetches.registrations.state = "rejected"
  /\ fetches.courses.state = "fulfilled" /\ fetches.webinars.state = "fulfilled"
  /\ NothingLoaded

(***************************************************************************)
(* Vocabulary of the continuation.                                         *)
(***************************************************************************)
\* a query parameter of url, as the pages read it
Param(url, key) == searchParamsGet(url, key)

\* the target by priority: the redirect, else the page of the course, else
\* the home page
PriorityTarget(redirect, course) ==
  CASE redirect.found /\ redirect.value # <<>> -> redirect.value
    [] ~(redirect.found /\ redirect.value # <<>>) /\ course.found /\ course.value # <<>> ->
         <<"/", "courses", "/">> \o course.value
    [] OTHER -> <<"/">>

\* a path inside the site: it starts with one "/"
SameSitePath(url) ==
  /\ Len(url) >= 1 /\ url[1] = "/"
  /\ Len(url) >= 2 => url[2] # "/"

\* C22: a successful sign-up navigates once, to the target of strict
\* priority over the parameters the form was submitted with: redirect,
\* else /courses/<course>, else "/"; no other step of the sign-up, and no
\* failed sign-up, navigates
C22_SignupRedirectPriority ==
  [][/\ handleSignup =>
          /\ signUp'.redirectParam = Param(location, "redirect")
          /\ signUp'.course = Param(location, "course")
          /\ location' = location
     /\ createUserFulfilled => location' = location
     /\ updateProfileFulfilled =>
          location' = PriorityTarget(signUp.redirectParam, signUp.course)
     /\ (createUserRejected \/ updateProfileRejected) => location' = location]_vars

\* a sign-up made from the Enroll link has arrived on the page of the course
C22_Witness ==
  /\ location = <<"/", "courses", "/", "c1">>
  /\ currentUser = User("Nina", SignupEmail)
  /\ signUp = NoSignUp

\* C26: a successful login or sign-up navigates only to a path inside the
\* site, whatever the redirect parameter of the link was
C26_SameSiteRedirect ==
  [][(signInFulfilled \/ updateProfileFulfilled) => SameSitePath(location')]_vars

\* C27: the continuation survives the Login link of the signup page: the
\* sign-in that follows lands where the sign-up would have, not on "/"
C27_ContinuationSurvives ==
  [][/\ loginLink =>
          loginRedirectAt(location') =
            PriorityTarget(Param(location, "redirect"), Param(location, "course"))
     /\ \A c \in CourseIds :
          (signInFulfilled /\ location = <<"/", "login", "?", "course", "=", c>>) =>
            location' = <<"/", "courses", "/", c>>]_vars

\* C28: the login page navigates only when a sign-in is fulfilled: the
\* submit and a rejected sign-in leave the location alone; the loading
\* flag is set on submit, is false after either outcome, and is never set
\* without a sign-in in flight
C28_LoginSettles ==
  /\ [][/\ handleLogin => (loginLoading' /\ location' = location)
        /\ \A e \in IdentityErrors :
             signInRejects(e) => (location' = location /\ ~loginLoading' /\ signIn' = "none")
        /\ signInFulfilled => (~loginLoading' /\ signIn' = "none")]_vars
  /\ [](loginLoading => signIn = "pending")

\* a sign-in made on the link of Book Seat has settled and navigated
C28_Witness ==
  /\ location = <<"/", "webinars", "?", "book", "=", "7">>
  /\ currentUser.signedIn
  /\ ~loginLoading /\ signIn = "none"

\* C24: for every registration snapshot, kind and catalog entity, the
\* count of getRegistrationsCount(kind, id) is the count that
\* computeCounts(kind) holds for the id, 0 when it holds none
C24_CountsAgree ==
  /\ \A i \in 1..Len(courses) :
       getRegistrationsCount(registrations, "course", courses[i].id)
         = stat(courseCounts, courses[i].id).count
  /\ \A i \in 1..Len(webinars) :
       getRegistrationsCount(registrations, "webinar", webinars[i].id)
         = stat(webinarCounts, webinars[i].id).count

(***************************************************************************)
(* Vocabulary of the admin lists.                                          *)
(***************************************************************************)
\* the ids of the entities of a displayed list
IdsOf(list) == {list[i].id : i \in 1..Len(list)}

\* those of them that were created from the page
CreatedIn(list) == IdsOf(list) \ IdsOf(SeedDb.courses \o SeedDb.webinars)

\* C23: a rejected write stays local to its save: the displayed lists and
\* both forms are as they were, loadingSave is false again, and it is
\* never true without a save in flight, so the next save can be made
C23_FailedSaveIsLocal ==
  /\ [][saveRejected =>
          /\ UNCHANGED <<adminCourses, adminWebinars, courseForm, webinarForm, db>>
          /\ ~loadingSave' /\ saving' = NoSave]_vars
  /\ [](loadingSave => saving # NoSave)

\* after a save settled without a document written: the form still filled
\* in, the button enabled, the loaded list as it was
C23_Witness ==
  /\ ~loadingSave /\ saving = NoSave
  /\ courseForm.title # "" /\ courseForm.description # ""
  /\ courseForm.modules = JsString("many")
  /\ written = 0
  /\ load.pc = "done" /\ Len(adminCourses) = 1

\* C25: the entity of a fulfilled save is at the head of its list and,
\* once in the list, is in it in every later state, however the save
\* interleaves with load()
C25_SavedEntityStays ==
  [][/\ saveCourseFulfilled => Head(adminCourses').id = nextId
     /\ saveWebinarFulfilled => Head(adminWebinars').id = nextId
     /\ CreatedIn(adminCourses) \subseteq IdsOf(adminCourses')
     /\ CreatedIn(adminWebinars) \subseteq IdsOf(adminWebinars')]_vars

\* C30: a publish with a session changes only what it must: the new post,
\* made of the form's fields with views, likes and comments 0, is put
\* before the posts there were, which keep content and order; the form is
\* hidden and its fields are back at their initial values; session and
\* location are left alone.  No other step changes the feed, except that
\* the page starts from the initial feed when it is mounted, so the feed
\* is the initial one plus one post for each publish since
C30_PublishFrame ==
  [][/\ (currentUser.signedIn /\ handleNewPost) =>
          /\ Len(posts') = Len(posts) + 1
          /\ Tail(posts') = posts
          /\ Head(posts').title = title
          /\ Head(posts').excerpt = excerpt
          /\ Head(posts').category = category
          /\ Head(posts').views = 0 /\ Head(posts').likes = 0 /\ Head(posts').comments = 0
          /\ ~showForm' /\ title' = "" /\ excerpt' = "" /\ category' = "Trading Basics"
          /\ UNCHANGED <<currentUser, location, loginVars, signupVars, signIn, signUp>>
     /\ ~(currentUser.signedIn /\ handleNewPost) =>
          \/ posts' = posts
          \/ /\ posts' = initialPosts
             /\ pathname(location') = CommunityUrl /\ pathname(location) # CommunityUrl]_vars

\* a post published under another category than the initial one, the
\* select back at the initial category
C30_Witness ==
  /\ currentUser.signedIn
  /\ pathname(location) = CommunityUrl
  /\ Len(posts) = Len(initialPosts) + 1
  /\ Head(posts).category = "Q&A" /\ Head(posts).views = 0
  /\ ~showForm /\ title = "" /\ excerpt = "" /\ category = "Trading Basics"

====
